---- MODULE Spec2Model ----
(***************************************************************************)
(* Model of dead_hosts/launcher/info_manager.py: the InfoManager that      *)
(* loads, normalizes, completes, cleans and stores the info.json           *)
(* administration file.                                                    *)
(*                                                                         *)
(* Representation.                                                         *)
(*   - a character is a one-character string, a text is a sequence of      *)
(*     characters, so that prefixes, replacements and truncations are      *)
(*     computed and not assumed;                                           *)
(*   - a Python/JSON value is a record [t, n, s, l]: t is the type tag,    *)
(*     n the number it carries, s its text, l its list of texts;           *)
(*   - time is counted in whole hours since the Unix epoch (TLC integers   *)
(*     are 32 bits wide, 10^12 seconds is not representable, 277777778     *)
(*     hours is);                                                          *)
(*   - a naive datetime is tagged "dt" and carries its wall-clock reading; *)
(*   - a dict (custom_pyfunceble_config) is the list of its key paths, the *)
(*     nesting of keys being written with the character ">".               *)
(***************************************************************************)
EXTENDS Integers, Sequences, FiniteSets, TLC

VARIABLES
    env,        \* project identity, local time zone and platform of the process
    file,       \* the administration file: [exists, data]
    siblings,   \* the legacy files present in the workspace
    obj,        \* "none", "live", "failed" (__init__ raised) or "gone"
    content,    \* self.content
    config_dir, \* self.pyfunceble_config_dir
    err,        \* the exception the last call raised
    ret,        \* the value the last call returned
    op,         \* the last call
    first,      \* self.content as the last successful __init__ left it
    stage,      \* how far a second normalization of that content went
    builds,     \* the number of __init__ calls
    calls       \* the number of method calls on constructed objects

vars == <<env, file, siblings, obj, content, config_dir, err, ret, op, first,
          stage, builds, calls>>

-----------------------------------------------------------------------------
(* Bounds of the model.                                                    *)

MaxBuilds == 2
MaxCalls == 3
MaxPing == 2

-----------------------------------------------------------------------------
(* Texts.                                                                  *)

Rep(ch, k) == [i \in 1..k |-> ch]

Take(s, k) == IF Len(s) <= k THEN s ELSE SubSeq(s, 1, k)

UpperChars == <<"A", "B", "C", "D", "E", "F", "L", "M">>

LowerChars == <<"a", "b", "c", "d", "e", "f", "l", "m">>

LowerCh(c) ==
    IF \E i \in 1..Len(UpperChars) : UpperChars[i] = c
    THEN LowerChars[CHOOSE i \in 1..Len(UpperChars) : UpperChars[i] = c]
    ELSE c

Lower(s) == [i \in 1..Len(s) |-> LowerCh(s[i])]

\* str.replace(ch, by) for a character by
Substitute(s, ch, by) == [i \in 1..Len(s) |-> IF s[i] = ch THEN by ELSE s[i]]

\* str.replace(ch, "")
Erase(s, ch) == LET Keep(c) == c # ch IN SelectSeq(s, Keep)

StartsWith(s, ch) == Len(s) >= 1 /\ s[1] = ch

DigitChars == <<"0", "1", "2", "3", "4", "5", "6", "7", "8", "9">>

IsDigit(c) == \E i \in 1..10 : DigitChars[i] = c

DigitVal(c) == (CHOOSE i \in 1..10 : DigitChars[i] = c) - 1

IsDigits(s) == Len(s) >= 1 /\ \A i \in 1..Len(s) : IsDigit(s[i])

RECURSIVE ParseNat(_)
ParseNat(s) ==
    IF s = <<>> THEN 0
    ELSE ParseNat(SubSeq(s, 1, Len(s) - 1)) * 10 + DigitVal(s[Len(s)])

RECURSIVE NatText(_)
NatText(k) ==
    IF k < 10 THEN <<DigitChars[k + 1]>>
    ELSE NatText(k \div 10) \o <<DigitChars[(k % 10) + 1]>>

IntText(k) == IF k < 0 THEN <<"-">> \o NatText(0 - k) ELSE NatText(k)

IsIntText(s) ==
    IF StartsWith(s, "-") THEN IsDigits(Tail(s)) ELSE IsDigits(s)

ParseInt(s) ==
    IF StartsWith(s, "-") THEN 0 - ParseNat(Tail(s)) ELSE ParseNat(s)

HexChars == {"0", "1", "2", "3", "4", "5", "6", "7", "8", "9",
             "a", "b", "c", "d", "e", "f", "A", "B", "C", "D", "E", "F"}

RECURSIVE StripBraces(_)
StripBraces(s) ==
    IF s = <<>> THEN s
    ELSE IF s[1] \in {"{", "}"} THEN StripBraces(Tail(s))
    ELSE IF s[Len(s)] \in {"{", "}"} THEN StripBraces(SubSeq(s, 1, Len(s) - 1))
    ELSE s

RECURSIVE JoinTexts(_, _)
JoinTexts(l, sep) ==
    IF l = <<>> THEN <<>>
    ELSE IF Len(l) = 1 THEN l[1]
    ELSE l[1] \o sep \o JoinTexts(Tail(l), sep)

-----------------------------------------------------------------------------
(* Values.                                                                 *)

NoneV == [t |-> "none", n |-> 0, s |-> <<>>, l |-> <<>>]
BoolV(b) == [t |-> "bool", n |-> IF b THEN 1 ELSE 0, s |-> <<>>, l |-> <<>>]
IntV(k) == [t |-> "int", n |-> k, s |-> <<>>, l |-> <<>>]
FloatV(k) == [t |-> "float", n |-> k, s |-> <<>>, l |-> <<>>]
StrV(s) == [t |-> "str", n |-> 0, s |-> s, l |-> <<>>]
ListV(l) == [t |-> "list", n |-> 0, s |-> <<>>, l |-> l]
DictV(l) == [t |-> "dict", n |-> 0, s |-> <<>>, l |-> l]
DtV(k) == [t |-> "dt", n |-> k, s |-> <<>>, l |-> <<>>]
UuidV(s) == [t |-> "uuid", n |-> 0, s |-> s, l |-> <<>>]

Truthy(v) ==
    CASE v.t = "none" -> FALSE
      [] v.t \in {"bool", "int", "float"} -> v.n # 0
      [] v.t = "str" -> v.s # <<>>
      [] v.t \in {"list", "dict"} -> v.l # <<>>
      [] OTHER -> TRUE

IsNumber(v) == v.t \in {"bool", "int", "float"}

EmptyRecord == [k \in {} |-> NoneV]

\* c with c[k] set to v
Put(c, k, v) == (k :> v) @@ c

\* c without the index k
Remove(c, k) == [x \in (DOMAIN c) \ {k} |-> c[x]] @@ EmptyRecord

NoErr == [kind |-> "none", at |-> ""]
Raise(kind, at) == [kind |-> kind, at |-> at]

-----------------------------------------------------------------------------
(* Field names.                                                            *)

CONCATENATED_INDEX == "last_download_timestamplatest_part_finish_timestamp"

BOOL_INDEXES == <<"currently_under_test", "ping_enabled">>

FLOAT_INDEXES == <<"days_until_next_test", "finish_timestamp",
                   CONCATENATED_INDEX, "latest_part_start_timestamp",
                   "start_timestamp">>

TIMESTAMP_INDEXES == <<"finish_timestamp", "last_download_timestamp",
                       "latest_part_finish_timestamp",
                       "latest_part_start_timestamp", "start_timestamp">>

DATETIME_INDEXES == <<"finish_datetime", "last_download_datetime",
                      "latest_part_finish_datetime",
                      "latest_part_start_datetime", "start_datetime">>

ID_INDEXES == <<"platform_container_id", "platform_remote_source_id">>

CLEAN_INDEXES == <<"arguments", "clean_list_file", "clean_original",
                   "commit_autosave_message", "last_test", "list_name",
                   "stable", "platform_shortname">>

Range(q) == {q[i] : i \in 1..Len(q)}

\* The keys for which index.endswith("_timestamp") holds.
EndsWithTimestamp(k) == k \in Range(TIMESTAMP_INDEXES) \cup {CONCATENATED_INDEX}

\* The keys for which index.endswith("_datetime") holds.
EndsWithDatetime(k) == k \in Range(DATETIME_INDEXES)

-----------------------------------------------------------------------------
(* The conversions of the Python runtime the manager calls.                *)

\* datetime.min and datetime.max, in hours since the epoch.
MinWall == -17259888
MaxWall == 70389527
\* The last hour the Windows C runtime converts (year 3000).
WinMaxWall == 9037559

Res(v) == [e |-> "none", v |-> v]
Fail(kind) == [e |-> kind, v |-> NoneV]

\* bool(int(x))
bool_int(v) ==
    CASE IsNumber(v) -> Res(BoolV(v.n # 0))
      [] v.t = "str" -> IF IsIntText(v.s) THEN Res(BoolV(ParseInt(v.s) # 0))
                        ELSE Fail("ValueError")
      [] OTHER -> Fail("TypeError")

\* float(x)
float(v) ==
    CASE IsNumber(v) -> Res(FloatV(v.n))
      [] v.t = "str" -> IF IsIntText(v.s) THEN Res(FloatV(ParseInt(v.s)))
                        ELSE Fail("ValueError")
      [] OTHER -> Fail("TypeError")

\* datetime.utcfromtimestamp(x)
utcfromtimestamp(v, ev) ==
    IF ~IsNumber(v) THEN Fail("TypeError")
    ELSE IF ev.platform = "windows"
         THEN IF v.n < 0 \/ v.n > WinMaxWall THEN Fail("OSError")
              ELSE Res(DtV(v.n))
         ELSE IF v.n < MinWall \/ v.n > MaxWall THEN Fail("ValueError")
              ELSE Res(DtV(v.n))

\* naive datetime.timestamp(): the wall-clock reading is taken as local time
timestamp(v, ev) ==
    IF ev.platform = "windows" /\ (v.n < 0 \/ v.n - ev.tz < 0)
    THEN Fail("OSError")
    ELSE Res(FloatV(v.n - ev.tz))

\* datetime.isoformat()
isoformat(v) == StrV(<<"T">> \o IntText(v.n))

\* datetime.fromisoformat(x)
fromisoformat(v) ==
    IF v.t # "str" THEN Fail("TypeError")
    ELSE IF StartsWith(v.s, "T") /\ IsIntText(Tail(v.s))
            /\ Len(v.s) <= 10
            /\ ParseInt(Tail(v.s)) >= MinWall /\ ParseInt(Tail(v.s)) <= MaxWall
         THEN Res(DtV(ParseInt(Tail(v.s))))
         ELSE Fail("ValueError")

UuidHex(s) == Erase(StripBraces(s), "-")

\* uuid.UUID(x)
uuid_UUID(v) ==
    IF v.t # "str" THEN Fail("AttributeError")
    ELSE IF Len(UuidHex(v.s)) = 32
            /\ \A i \in 1..Len(UuidHex(v.s)) : UuidHex(v.s)[i] \in HexChars
         THEN Res(UuidV(Lower(UuidHex(v.s))))
         ELSE Fail("ValueError")

\* str(uuid)
uuid_str(v) ==
    StrV(SubSeq(v.s, 1, 8) \o <<"-">> \o SubSeq(v.s, 9, 12) \o <<"-">>
         \o SubSeq(v.s, 13, 16) \o <<"-">> \o SubSeq(v.s, 17, 20) \o <<"-">>
         \o SubSeq(v.s, 21, 32))

\* DictHelper.flatten(): nested keys are joined with "."
flatten(v) == DictV([i \in 1..Len(v.l) |-> Substitute(v.l[i], ">", ".")])

epoch_dt == DtV(0)

-----------------------------------------------------------------------------
(* update(): the steps of the method, in the order of the source.  A step  *)
(* works on st = [c, e, del]: the content, the exception raised so far and *)
(* the to_delete list.  Once an exception is raised the later steps do      *)
(* nothing, and the content keeps what the earlier steps wrote to it.       *)

ADMINISTRATORS == <<".", "a", "d", "m">>
UPDATE_ME_PY == <<"u", "p", ".", "p", "y">>
ADMIN_PY == <<"a", "d", ".", "p", "y">>

Ok(st) == st.e.kind = "none"

\* The element of a singleton: the steps of a method run one after the
\* other, each on the finished result of the one before, which is written
\* The({Step(x) : x \in {...}}).
The(S) == CHOOSE x \in S : TRUE

\* line 243
UpdateName(st, ev) == [st EXCEPT !.c = Put(st.c, "name", StrV(ev.name))]

\* lines 247-256: os.path.join() takes a str only
UpdateToDelete(st, ev) ==
    IF ~Ok(st) THEN st
    ELSE IF "list_name" \notin DOMAIN st.c
    THEN [st EXCEPT !.del = {ADMINISTRATORS, UPDATE_ME_PY, ADMIN_PY}]
    ELSE IF st.c["list_name"].t # "str"
    THEN [st EXCEPT !.e = Raise("TypeError", "list_name")]
    ELSE [st EXCEPT !.del = {ADMINISTRATORS, UPDATE_ME_PY, ADMIN_PY,
                              st.c["list_name"].s}]

PrefixAtAlways(username) == <<"@">> \o username

PrefixAt(username) ==
    IF StartsWith(username, "@") THEN username ELSE <<"@">> \o username

\* The top-level key of a key path.
TopKey(k) ==
    IF \E i \in 1..Len(k) : k[i] = ">"
    THEN SubSeq(k, 1, (CHOOSE i \in 1..Len(k) :
                         k[i] = ">" /\ \A j \in 1..(i - 1) : k[j] # ">") - 1)
    ELSE k

RECURSIVE TopKeys(_)
TopKeys(l) ==
    IF l = <<>> THEN <<>>
    ELSE LET r == TopKeys(SubSeq(l, 1, Len(l) - 1))
         IN IF TopKey(l[Len(l)]) \in {r[i] : i \in 1..Len(r)} THEN r
            ELSE Append(r, TopKey(l[Len(l)]))

\* What iterating the value yields: the entries of a list, the characters
\* of a str, the top-level keys of a dict.
Iterate(v) ==
    CASE v.t = "list" -> v.l
      [] v.t = "str" -> [i \in 1..Len(v.s) |-> <<v.s[i]>>]
      [] OTHER -> TopKeys(v.l)

\* lines 258-272
UpdatePing(st, ev) ==
    IF ~Ok(st) \/ "ping" \notin DOMAIN st.c THEN st
    ELSE IF st.c["ping"].t \notin {"list", "str", "dict"}
    THEN [st EXCEPT !.e = Raise("TypeError", "ping")]
    ELSE [st EXCEPT !.c = Put(st.c, "ping",
            ListV([i \in 1..Len(Iterate(st.c["ping"])) |->
                     PrefixAt(Iterate(st.c["ping"])[i])]))]

\* lines 274-284
UpdateRawLink(st, ev) ==
    IF Ok(st) /\ "raw_link" \in DOMAIN st.c /\ st.c["raw_link"].t = "str"
       /\ ~Truthy(st.c["raw_link"])
    THEN [st EXCEPT !.c = Put(st.c, "raw_link", NoneV)]
    ELSE st

\* lines 286-314
UpdateCustomConfig(st, ev) ==
    IF ~Ok(st) \/ "custom_pyfunceble_config" \notin DOMAIN st.c THEN st
    ELSE LET v == st.c["custom_pyfunceble_config"]
             w == IF Truthy(v)
                  THEN IF v.t # "dict" THEN DictV(<<>>) ELSE flatten(v)
                  ELSE DictV(<<>>)
             x == IF Truthy(w) /\ w.t # "dict" THEN DictV(<<>>) ELSE w
         IN [st EXCEPT !.c = Put(st.c, "custom_pyfunceble_config", x)]

\* lines 316-325
UpdateBool(st, ev, index) ==
    IF ~Ok(st) \/ index \notin DOMAIN st.c \/ st.c[index].t = "bool" THEN st
    ELSE LET r == bool_int(st.c[index])
         IN IF r.e = "none" THEN [st EXCEPT !.c = Put(st.c, index, r.v)]
            ELSE [st EXCEPT !.e = Raise(r.e, index)]

\* lines 327-343
UpdateFloat(st, ev, index) ==
    IF ~Ok(st) \/ index \notin DOMAIN st.c \/ st.c[index].t = "float" THEN st
    ELSE LET r == float(st.c[index])
         IN IF r.e = "none" THEN [st EXCEPT !.c = Put(st.c, index, r.v)]
            ELSE [st EXCEPT !.e = Raise(r.e, index)]

\* lines 350-361: only OSError is caught
UpdateTimestamp(st, ev, index) ==
    IF ~Ok(st) \/ index \notin DOMAIN st.c \/ st.c[index].t = "dt" THEN st
    ELSE LET r == utcfromtimestamp(st.c[index], ev)
         IN IF r.e = "none" THEN [st EXCEPT !.c = Put(st.c, index, r.v)]
            ELSE IF r.e = "OSError"
            THEN [st EXCEPT !.c = Put(st.c, index, epoch_dt)]
            ELSE [st EXCEPT !.e = Raise(r.e, index)]

\* lines 363-379: only ValueError is caught; the else branch also takes
\* the values that are datetime instances already
UpdateDatetime(st, ev, index) ==
    IF ~Ok(st) \/ index \notin DOMAIN st.c THEN st
    ELSE IF Truthy(st.c[index]) /\ st.c[index].t # "dt"
    THEN LET r == fromisoformat(st.c[index])
         IN IF r.e = "none" THEN [st EXCEPT !.c = Put(st.c, index, r.v)]
            ELSE IF r.e = "ValueError"
            THEN [st EXCEPT !.c = Put(st.c, index, epoch_dt)]
            ELSE [st EXCEPT !.e = Raise(r.e, index)]
    ELSE [st EXCEPT !.c = Put(st.c, index, epoch_dt)]

\* lines 384-406: the else branch also takes the values that are UUID
\* instances already
UpdateId(st, ev, index) ==
    IF ~Ok(st) \/ index \notin DOMAIN st.c THEN st
    ELSE IF Truthy(st.c[index]) /\ st.c[index].t # "uuid"
    THEN LET r == uuid_UUID(st.c[index])
         IN IF r.e = "none" THEN [st EXCEPT !.c = Put(st.c, index, r.v)]
            ELSE [st EXCEPT !.e = Raise(r.e, index)]
    ELSE [st EXCEPT !.c = Put(st.c, index, NoneV)]

\* lines 408-411
UpdateRepo(st, ev) ==
    IF ~Ok(st) THEN st
    ELSE [st EXCEPT !.c = Put(st.c, "repo", StrV(ev.owner \o <<"/">> \o ev.name))]

ContainerNameDotsKept(name) ==
    Take(Erase(Erase(Erase(Erase(Substitute(Lower(name),
         " ", "-"), "["), "]"), "("), ")"), 128)

\* lines 413-422
ContainerName(name) ==
    Take(Substitute(Erase(Erase(Erase(Erase(Substitute(Lower(name),
         " ", "-"), "["), "]"), "("), ")"), ".", "-"), 128)

UpdateContainerName(st, ev) ==
    IF ~Ok(st) THEN st
    ELSE [st EXCEPT !.c = Put(st.c, "platform_container_name",
                               StrV(ContainerName(st.c["name"].s)))]

\* One pass of the loop named loop over one index.
Step(loop, st, ev, index) ==
    CASE loop = "bool" -> UpdateBool(st, ev, index)
      [] loop = "float" -> UpdateFloat(st, ev, index)
      [] loop = "timestamp" -> UpdateTimestamp(st, ev, index)
      [] loop = "datetime" -> UpdateDatetime(st, ev, index)
      [] loop = "id" -> UpdateId(st, ev, index)

RECURSIVE ForEach(_, _, _, _)
ForEach(loop, st, ev, indexes) ==
    IF indexes = <<>> THEN st
    ELSE The({ForEach(loop, x, ev, Tail(indexes)) :
                x \in {Step(loop, st, ev, Head(indexes))}})

\* lines 236-431: the result is [c, e, del]; the files of del are deleted
\* by the caller of this operator when e is "none" (lines 424-431).
update(c, ev) ==
    The({UpdateContainerName(UpdateRepo(s7, ev), ev) : s7 \in
        {ForEach("id", s6, ev, ID_INDEXES) : s6 \in
        {ForEach("datetime", s5, ev, DATETIME_INDEXES) : s5 \in
        {ForEach("timestamp", s4, ev, TIMESTAMP_INDEXES) : s4 \in
        {ForEach("float", s3, ev, FLOAT_INDEXES) : s3 \in
        {ForEach("bool", s2, ev, BOOL_INDEXES) : s2 \in
        {UpdateCustomConfig(UpdateRawLink(UpdatePing(s1, ev), ev), ev) : s1 \in
        {UpdateToDelete(UpdateName(s0, ev), ev) : s0 \in
        {[c |-> c, e |-> NoErr, del |-> {}]}}}}}}}}})

-----------------------------------------------------------------------------
(* create_missing_index(), clean(), store(), get_ping_for_commit().        *)

CANONICAL_OWNER == <<"d", "e", "a", "d", "-", "h", "o", "s", "t", "s">>

PLATFORM_DESCRIPTION == <<"I", "m", "p", "o", "r", "t", "e", "d">>

\* lines 204-211: the derivation of the default, which leaves "." alone
DefaultContainerName(name) ==
    Take(Erase(Erase(Erase(Erase(Substitute(Lower(name),
         " ", "-"), "["), "]"), "("), ")"), 128)

\* lines 186-224
Indexes(ev, now) ==
    LET default_datetime == DtV(now - 15 * 24)
        default_timestamp == timestamp(default_datetime, ev).v
    IN [k \in {"currently_under_test", "custom_pyfunceble_config",
               "days_until_next_test", "name", "repo",
               "platform_container_name", "platform_description",
               "own_management", "ping", "ping_enabled", "raw_link",
               "live_update", "platform_container_id",
               "platform_remote_source_id", "platform_optout"}
              \cup Range(TIMESTAMP_INDEXES) \cup Range(DATETIME_INDEXES) |->
         CASE k \in Range(DATETIME_INDEXES) -> default_datetime
           [] k \in Range(TIMESTAMP_INDEXES) -> default_timestamp
           [] k \in {"currently_under_test", "own_management", "ping_enabled"}
                -> BoolV(FALSE)
           [] k = "custom_pyfunceble_config" -> DictV(<<>>)
           [] k = "days_until_next_test" -> IntV(2)
           [] k = "name" -> StrV(ev.name)
           [] k = "repo" -> StrV(ev.owner \o <<"/">> \o ev.name)
           [] k = "platform_container_name"
                -> StrV(DefaultContainerName(ev.name))
           [] k = "platform_description" -> StrV(PLATFORM_DESCRIPTION)
           [] k = "ping" -> ListV(<<>>)
           [] k = "live_update" -> BoolV(TRUE)
           [] k = "platform_optout" -> BoolV(ev.owner # CANONICAL_OWNER)
           [] OTHER -> NoneV]

\* lines 180-234
create_missing_index(c, ev, now) ==
    c @@ Indexes(ev, now)

RECURSIVE CleanEach(_, _)
CleanEach(c, indexes) ==
    IF indexes = <<>> THEN c
    ELSE CleanEach(IF Head(indexes) \in DOMAIN c THEN Remove(c, Head(indexes))
                   ELSE c, Tail(indexes))

cleanStableKept(c) ==
    CleanEach(c, SelectSeq(CLEAN_INDEXES, LAMBDA index : index # "stable"))

\* lines 154-178
clean(c) == CleanEach(c, CLEAN_INDEXES)

\* lines 131-149: what local_copy holds for one index
LocalCopy(k, v, ev) ==
    IF EndsWithTimestamp(k) /\ v.t = "dt"
    THEN IF timestamp(v, ev).e = "OSError" THEN FloatV(0)
         ELSE timestamp(v, ev).v
    ELSE IF EndsWithDatetime(k) /\ v.t = "dt" THEN isoformat(v)
    ELSE IF v.t = "uuid" THEN uuid_str(v)
    ELSE v

\* lines 124-152: [e, data]; json.dump() takes no datetime
store(c, ev) ==
    LET local_copy == [k \in DOMAIN c |-> LocalCopy(k, c[k], ev)]
    IN IF \E k \in DOMAIN c : local_copy[k].t = "dt"
       THEN [e |-> Raise("TypeError", "store"), data |-> EmptyRecord]
       ELSE [e |-> NoErr, data |-> local_copy]

get_ping_for_commit_truthy(c) ==
    IF "ping_enabled" \in DOMAIN c /\ "ping" \in DOMAIN c
       /\ Truthy(c["ping_enabled"]) /\ Truthy(c["ping"])
    THEN StrV(JoinTexts(Iterate(c["ping"]), <<" ">>))
    ELSE StrV(<<>>)

\* lines 433-441
get_ping_for_commit(c) ==
    IF "ping_enabled" \in DOMAIN c /\ "ping" \in DOMAIN c
       /\ c["ping_enabled"] = BoolV(TRUE) /\ Truthy(c["ping"])
    THEN StrV(JoinTexts(Iterate(c["ping"]), <<" ">>))
    ELSE StrV(<<>>)

-----------------------------------------------------------------------------
(* The inputs.                                                             *)

MY_COOL_LIST == <<"M", "y", " ", "[", "C", "o", "o", "l", "]", " ",
                  "L", "i", "s", "t", ".", "t", "x", "t">>

LONG_NAME == Rep("a", 126) \o <<"(", ")", "B", ".", "c">>

\* The project identity, the offset of local time from UTC in hours, and
\* the platform.
Envs ==
    {[owner |-> CANONICAL_OWNER, name |-> MY_COOL_LIST, tz |-> z,
      platform |-> p] : z \in {0, 1}, p \in {"posix", "windows"}}
    \cup {[owner |-> <<"m", "e">>, name |-> LONG_NAME, tz |-> 0,
           platform |-> "posix"]}

\* datetime.utcnow(), in hours since the epoch
Nows == {500000}

\* -1000000000000 seconds, and an hour of the year 10000
BadTs == -277777778
OverTs == 70389528

LIST_FILE == <<"l", ".", "t", "x", "t">>

UUID_TEXT == <<"{">> \o Rep("A", 8) \o <<"-">> \o Rep("1", 4) \o <<"-">>
             \o Rep("b", 4) \o <<"-">> \o Rep("2", 4) \o <<"-">>
             \o Rep("F", 12) \o <<"}">>

\* The <<index, value>> pairs of the administration files with one index.
Pairs ==
    {<<"ping", ListV(<< <<"a", "l">>, <<"@", "b", "o">> >>)>>,
     <<"ping", ListV(<< <<"@", "@", "c">> >>)>>,
     <<"ping", NoneV>>,
     <<"raw_link", StrV(<<>>)>>,
     <<"custom_pyfunceble_config", DictV(<< <<"a", ">", "b">>, <<"c">> >>)>>,
     <<"custom_pyfunceble_config", StrV(<<"x">>)>>,
     <<"currently_under_test", StrV(<<"a", "b", "c">>)>>,
     <<"ping_enabled", StrV(<<"1">>)>>,
     <<"days_until_next_test", IntV(3)>>,
     <<"finish_timestamp", IntV(123)>>,
     <<"finish_timestamp", FloatV(BadTs)>>,
     <<"finish_timestamp", FloatV(-5)>>,
     <<"last_download_timestamp", StrV(<<"1", "2">>)>>,
     <<"start_timestamp", FloatV(OverTs)>>,
     <<"finish_datetime", StrV(<<"T", "4", "0", "0", "0", "0", "0">>)>>,
     <<"finish_datetime", StrV(<<"x">>)>>,
     <<"finish_datetime", IntV(5)>>,
     <<"start_datetime", NoneV>>,
     <<"platform_container_id", StrV(UUID_TEXT)>>,
     <<"platform_container_id", StrV(<<"x">>)>>,
     <<"platform_remote_source_id", StrV(<<>>)>>,
     <<"platform_remote_source_id", IntV(5)>>,
     <<"list_name", IntV(1)>>,
     <<"platform_optout", BoolV(TRUE)>>}

\* An administration file of the legacy infrastructure.
LEGACY_RECORD ==
    [k \in {"name", "repo", "ping", "raw_link", "currently_under_test",
            "days_until_next_test", "finish_timestamp", "start_timestamp",
            "finish_datetime", "start_datetime", "platform_container_id",
            "stable", "list_name", "arguments", "extra"} |->
       CASE k \in {"name", "repo"} -> StrV(<<"o", "l", "d">>)
         [] k = "ping" -> ListV(<< <<"a", "l">>, <<"@", "b", "o">> >>)
         [] k = "raw_link" -> StrV(<<"x">>)
         [] k = "currently_under_test" -> IntV(1)
         [] k = "days_until_next_test" -> IntV(3)
         [] k = "finish_timestamp" -> FloatV(456)
         [] k = "start_timestamp" -> IntV(123)
         [] k = "finish_datetime" -> StrV(<<"T", "4", "5", "6">>)
         [] k = "start_datetime" -> StrV(<<"T", "-", "3">>)
         [] k = "platform_container_id" -> StrV(UUID_TEXT)
         [] k = "stable" -> BoolV(TRUE)
         [] k = "list_name" -> StrV(LIST_FILE)
         [] k = "arguments" -> ListV(<< <<"-", "a">> >>)
         [] OTHER -> StrV(<<"x">>)]

\* An administration file whose normalization raises after ping is rewritten.
BROKEN_RECORD ==
    [k \in {"ping", "currently_under_test"} |->
       IF k = "ping" THEN ListV(<< <<"a", "l">> >>) ELSE StrV(<<"a", "b", "c">>)]

\* The administration file before the first construction.
InitialFiles ==
    {[exists |-> FALSE, data |-> EmptyRecord]}
    \cup {[exists |-> TRUE, data |-> Put(EmptyRecord, p[1], p[2])] : p \in Pairs}
    \cup {[exists |-> TRUE, data |-> r] :
            r \in {EmptyRecord, LEGACY_RECORD, BROKEN_RECORD}}

\* The __setitem__ calls of the callers.
SetPairs ==
    {<<"stable", BoolV(TRUE)>>,
     <<"ping_enabled", BoolV(TRUE)>>}

GetIndexes == {"stable"}

-----------------------------------------------------------------------------
(* The state machine.                                                      *)

Init ==
    /\ env \in Envs
    /\ file \in InitialFiles
    /\ siblings = {ADMIN_PY, LIST_FILE}
    /\ obj = "none"
    /\ content = EmptyRecord
    /\ config_dir = "canonical"
    /\ err = NoErr
    /\ ret = NoneV
    /\ op = "init"
    /\ first = EmptyRecord
    /\ stage = "none"
    /\ builds = 0
    /\ calls = 0

\* lines 95-102
ConfigDir(c) ==
    IF c["platform_optout"] = BoolV(TRUE) THEN "canonical" ELSE "temp"

\* lines 76-104: __init__
Construct ==
    /\ obj \in {"none", "gone"}
    /\ builds < MaxBuilds
    /\ \E now \in Nows :
       \E u \in {update(IF file.exists THEN file.data ELSE EmptyRecord, env)} :
       \E full \in {clean(create_missing_index(u.c, env, now))} :
       \E w \in {store(full, env)} :
          IF u.e.kind # "none"
          THEN /\ obj' = "failed"
               /\ content' = u.c
               /\ err' = u.e
               /\ UNCHANGED <<file, siblings, first, config_dir>>
               /\ stage' = "none"
          ELSE IF w.e.kind # "none"
          THEN /\ obj' = "failed"
               /\ content' = full
               /\ err' = w.e
               /\ siblings' = siblings \ u.del
               /\ UNCHANGED <<file, first, config_dir>>
               /\ stage' = "none"
          ELSE /\ obj' = "live"
               /\ content' = full
               /\ err' = NoErr
               /\ siblings' = siblings \ u.del
               /\ file' = [exists |-> TRUE, data |-> w.data]
               /\ config_dir' = ConfigDir(full)
               /\ first' = full
               /\ stage' = "c1"
    /\ builds' = builds + 1
    /\ op' = "construct"
    /\ ret' = NoneV
    /\ UNCHANGED <<env, calls>>

\* lines 121-122: __del__, also of an object whose __init__ raised; the
\* object and what its calls returned are gone afterwards
Del ==
    /\ obj \in {"live", "failed"}
    /\ obj' = "gone"
    /\ \E w \in {store(content, env)} :
          file' = IF w.e.kind = "none"
                  THEN [exists |-> TRUE, data |-> w.data] ELSE file
    /\ content' = EmptyRecord
    /\ err' = NoErr
    /\ ret' = NoneV
    /\ op' = "del"
    /\ stage' = IF stage = "c1" THEN "stored" ELSE "none"
    /\ UNCHANGED <<env, siblings, config_dir, first, builds, calls>>

\* lines 236-431: update() called on the constructed object
Update ==
    /\ obj = "live"
    /\ calls < MaxCalls
    /\ \E u \in {update(content, env)} :
          /\ content' = u.c
          /\ err' = u.e
          /\ siblings' = IF u.e.kind = "none" THEN siblings \ u.del
                         ELSE siblings
          /\ stage' = IF stage = "c1"
                      THEN (IF u.e.kind = "none" THEN "u2" ELSE "raised")
                      ELSE "other"
    /\ op' = "update"
    /\ calls' = calls + 1
    /\ UNCHANGED <<env, file, obj, config_dir, ret, first, builds>>

\* lines 180-234
CreateMissingIndex ==
    /\ obj = "live"
    /\ calls < MaxCalls
    /\ \E now \in Nows : content' = create_missing_index(content, env, now)
    /\ err' = NoErr
    /\ stage' = IF stage = "u2" THEN "f2" ELSE "other"
    /\ op' = "create_missing_index"
    /\ calls' = calls + 1
    /\ UNCHANGED <<env, file, siblings, obj, config_dir, ret, first, builds>>

\* lines 154-178
Clean ==
    /\ obj = "live"
    /\ calls < MaxCalls
    /\ content' = clean(content)
    /\ err' = NoErr
    /\ stage' = IF stage = "f2" THEN "c2" ELSE "other"
    /\ op' = "clean"
    /\ calls' = calls + 1
    /\ UNCHANGED <<env, file, siblings, obj, config_dir, ret, first, builds>>

\* lines 124-152
Store ==
    /\ obj = "live"
    /\ calls < MaxCalls
    /\ \E w \in {store(content, env)} :
          /\ err' = w.e
          /\ file' = IF w.e.kind = "none"
                     THEN [exists |-> TRUE, data |-> w.data] ELSE file
    /\ op' = "store"
    /\ calls' = calls + 1
    /\ UNCHANGED <<env, siblings, obj, content, config_dir, ret, first, stage,
                   builds>>

\* lines 118-119: __setitem__
SetItem ==
    /\ obj = "live"
    /\ calls < MaxCalls
    /\ \E p \in SetPairs : content' = Put(content, p[1], p[2])
    /\ err' = NoErr
    /\ stage' = "other"
    /\ op' = "setitem"
    /\ calls' = calls + 1
    /\ UNCHANGED <<env, file, siblings, obj, config_dir, ret, first, builds>>

\* lines 112-116: __getitem__
GetItem ==
    /\ obj = "live"
    /\ calls < MaxCalls
    /\ \E index \in GetIndexes :
        IF index \in DOMAIN content
        THEN ret' = content[index] /\ err' = NoErr
        ELSE ret' = ret /\ err' = Raise("AttributeError", index)
    /\ op' = "getitem"
    /\ calls' = calls + 1
    /\ UNCHANGED <<env, file, siblings, obj, content, config_dir, first,
                   stage, builds>>

\* lines 433-441
GetPingForCommit ==
    /\ obj = "live"
    /\ calls < MaxCalls
    /\ ret' = get_ping_for_commit(content)
    /\ err' = NoErr
    /\ op' = "get_ping_for_commit"
    /\ calls' = calls + 1
    /\ UNCHANGED <<env, file, siblings, obj, content, config_dir, first,
                   stage, builds>>

Next ==
    \/ Construct
    \/ Del
    \/ Update
    \/ CreateMissingIndex
    \/ Clean
    \/ Store
    \/ SetItem
    \/ GetItem
    \/ GetPingForCommit

Spec == Init /\ [][Next]_vars

-----------------------------------------------------------------------------
(* The ping methods on arbitrary records: update() and                     *)
(* get_ping_for_commit() applied to a constructed object whose content     *)
(* holds any ping list and any ping_enabled, or lacks them.                *)

Usernames == {<<>>, <<"a", "l">>, <<"@", "b", "o">>, <<"@", "@", "c">>}

PingLists == UNION {[1..k -> Usernames] : k \in 0..MaxPing}

PingRecords ==
    {p @@ q : p \in {EmptyRecord} \cup {"ping" :> ListV(l) : l \in PingLists},
              q \in {EmptyRecord} \cup {"ping_enabled" :> v :
                        v \in {BoolV(TRUE), BoolV(FALSE), IntV(1)}}}

InitPing ==
    /\ env \in Envs
    /\ file = [exists |-> FALSE, data |-> EmptyRecord]
    /\ siblings = {}
    /\ obj = "live"
    /\ content \in PingRecords
    /\ config_dir = "canonical"
    /\ err = NoErr
    /\ ret = NoneV
    /\ op = "init"
    /\ first = EmptyRecord
    /\ stage = "none"
    /\ builds = 1
    /\ calls = 0

NextPing ==
    \/ Update
    \/ GetPingForCommit

SpecPing == InitPing /\ [][NextPing]_vars

-----------------------------------------------------------------------------
(* Properties.                                                             *)

\* What a value of the index k stands for: an instant for the timestamp and
\* datetime indexes, a number for the numbers, the value itself otherwise.
Logical(k, v) ==
    IF (EndsWithTimestamp(k) /\ (v.t = "dt" \/ IsNumber(v)))
       \/ (EndsWithDatetime(k) /\ v.t = "dt")
    THEN [t |-> "instant", n |-> v.n, s |-> <<>>, l |-> <<>>]
    ELSE IF v.t \in {"int", "float"}
    THEN [t |-> "number", n |-> v.n, s |-> <<>>, l |-> <<>>]
    ELSE v

SameLogicalRecord(a, b) ==
    /\ DOMAIN a = DOMAIN b
    /\ \A k \in DOMAIN a : Logical(k, a[k]) = Logical(k, b[k])

\* C1: a second run of update(), create_missing_index(), clean() on the
\* content the construction left raises nothing and leaves that content as
\* it was.
C1_SecondRunIsIdentity ==
    /\ stage # "raised"
    /\ stage = "c2" => content = first

\* C2: a construction that loads the file the store() of the last
\* construction wrote yields the same logical record as that construction.
C2_RoundTrip ==
    [][(/\ first # EmptyRecord
        /\ file = [exists |-> TRUE, data |-> store(first, env).data]
        /\ op' = "construct"
        /\ builds' = builds + 1)
       => (obj' = "live" /\ SameLogicalRecord(content', first))]_vars

\* C3, as stated: after update() the ping list has the length and order it
\* had and every entry starts with exactly one "@".
C3_ExactlyOneAt ==
    [][(/\ op' = "update"
        /\ err'.kind = "none"
        /\ "ping" \in DOMAIN content
        /\ content["ping"].t = "list")
       => (/\ Len(content'["ping"].l) = Len(content["ping"].l)
           /\ \A i \in 1..Len(content["ping"].l) :
                /\ StartsWith(content'["ping"].l[i], "@")
                /\ ~StartsWith(Tail(content'["ping"].l[i]), "@")
                /\ \/ content'["ping"].l[i] = content["ping"].l[i]
                   \/ content'["ping"].l[i] = <<"@">> \o content["ping"].l[i])]_vars

\* C3, amended: after update() the ping list has the length and order it
\* had; an entry that lacked a leading "@" got one prefixed, an entry that
\* had one or more is unchanged; so every entry starts with "@", and with
\* exactly one "@" unless it was stored with more than one.
C3_PrefixedOnce ==
    [][(/\ op' = "update"
        /\ err'.kind = "none"
        /\ "ping" \in DOMAIN content
        /\ content["ping"].t = "list")
       => (/\ content'["ping"].t = "list"
           /\ Len(content'["ping"].l) = Len(content["ping"].l)
           /\ \A i \in 1..Len(content["ping"].l) :
                LET before == content["ping"].l[i]
                    after == content'["ping"].l[i]
                IN /\ StartsWith(after, "@")
                   /\ StartsWith(before, "@") => after = before
                   /\ ~StartsWith(before, "@") =>
                         (Tail(after) = before /\ ~StartsWith(Tail(after), "@"))
                   /\ StartsWith(Tail(after), "@") =>
                         StartsWith(Tail(before), "@"))]_vars

C3_Witness ==
    /\ op = "update"
    /\ err.kind = "none"
    /\ "ping" \in DOMAIN content
    /\ content["ping"].l = << <<"@", "a", "l">>, <<"@", "b", "o">> >>

Brackets == {"[", "]", "(", ")"}

\* The name with every character lower-cased, every character of dashed
\* turned into "-", every character of erased left out, cut at 128.
DerivedName(name, dashed, erased) ==
    Take(SelectSeq([i \in 1..Len(name) |->
                      IF name[i] \in dashed THEN "-" ELSE LowerCh(name[i])],
                   LAMBDA ch : ch \notin erased), 128)

UpdateSucceeded == obj = "live" /\ op \in {"construct", "update"} /\ err.kind = "none"

\* C4, as stated: after update() platform_container_name is the project
\* name lower-cased, spaces turned into "-", brackets, parentheses and dots
\* removed, cut at 128 characters; "My [Cool] List.txt" gives
\* "my-cool-listtxt".
C4_DotsRemoved ==
    UpdateSucceeded =>
       /\ content["platform_container_name"]
            = StrV(DerivedName(env.name, {" "}, Brackets \cup {"."}))
       /\ env.name = MY_COOL_LIST =>
            content["platform_container_name"].s
              = <<"m", "y", "-", "c", "o", "o", "l", "-", "l", "i", "s", "t",
                  "t", "x", "t">>

\* C4, amended: after update() platform_container_name is the project name
\* lower-cased, spaces and dots turned into "-", brackets and parentheses
\* removed, cut at 128 characters; "My [Cool] List.txt" gives
\* "my-cool-list-txt".
C4_DotsDashed ==
    UpdateSucceeded =>
       /\ content["platform_container_name"]
            = StrV(DerivedName(env.name, {" ", "."}, Brackets))
       /\ Len(content["platform_container_name"].s) <= 128
       /\ env.name = MY_COOL_LIST =>
            content["platform_container_name"].s
              = <<"m", "y", "-", "c", "o", "o", "l", "-", "l", "i", "s", "t",
                  "-", "t", "x", "t">>

C4_Witness ==
    /\ UpdateSucceeded
    /\ op = "update"
    /\ env.name = MY_COOL_LIST
    /\ Len(content["platform_container_name"].s) = 16

\* C5: update() raises at none of the five timestamp indexes when the
\* stored number is no instant of the platform, and sets the index to the
\* epoch.
C5_OutOfRangeIsEpoch ==
    \A index \in {"finish_timestamp", "last_download_timestamp",
                  "latest_part_finish_timestamp",
                  "latest_part_start_timestamp", "start_timestamp"} :
       ~(/\ op \in {"construct", "update"}
         /\ err.kind # "none"
         /\ err.at = index
         /\ index \in DOMAIN content
         /\ IsNumber(content[index]))

RECURSIVE JoinedBySpaces(_)
JoinedBySpaces(l) ==
    IF Len(l) = 0 THEN <<>>
    ELSE IF Len(l) = 1 THEN l[1]
    ELSE JoinedBySpaces(SubSeq(l, 1, Len(l) - 1)) \o <<" ">> \o l[Len(l)]

\* C6: get_ping_for_commit() returns the ping entries joined by single
\* spaces when ping_enabled is True and ping is not empty, the empty text in
\* every other case, an absent index included; it raises nothing and leaves
\* the content as it is.
C6_PingMention ==
    [][op' = "get_ping_for_commit" =>
        /\ content' = content
        /\ err'.kind = "none"
        /\ ret' = IF /\ "ping_enabled" \in DOMAIN content
                     /\ "ping" \in DOMAIN content
                     /\ content["ping_enabled"] = BoolV(TRUE)
                     /\ content["ping"].l # <<>>
                  THEN StrV(JoinedBySpaces(content["ping"].l))
                  ELSE StrV(<<>>)]_vars

C6_Witness ==
    /\ op = "get_ping_for_commit"
    /\ ret = StrV(<<"@", "b", "o", " ", "@", "@", "c">>)

Obsolete == {"arguments", "clean_list_file", "clean_original",
             "commit_autosave_message", "last_test", "list_name", "stable",
             "platform_shortname"}

\* C7: clean() raises nothing, leaves none of the obsolete indexes in the
\* content and every other index as it was; the file a successful
\* construction writes has none of the obsolete indexes.
C7_CleanRemovesObsolete ==
    [][/\ op' = "clean" =>
            /\ err'.kind = "none"
            /\ DOMAIN content' = (DOMAIN content) \ Obsolete
            /\ \A k \in DOMAIN content' : content'[k] = content[k]
       /\ (op' = "construct" /\ obj' = "live") =>
            /\ file'.exists
            /\ (DOMAIN file'.data) \cap Obsolete = {}
            /\ (DOMAIN content') \cap Obsolete = {}]_vars

\* Only the legacy file holds "extra"; it holds obsolete indexes too.
C7_Witness ==
    /\ op = "construct"
    /\ obj = "live"
    /\ "extra" \in DOMAIN file.data
    /\ (DOMAIN file.data) \cap Obsolete = {}

\* C8: update() leaves a datetime index that holds a datetime, and an id
\* index that holds a UUID, as it was.
C8_CanonicalKept ==
    [][op' = "update" =>
        /\ \A k \in {"finish_datetime", "last_download_datetime",
                     "latest_part_finish_datetime",
                     "latest_part_start_datetime", "start_datetime"} :
              (k \in DOMAIN content /\ content[k].t = "dt")
                 => content'[k] = content[k]
        /\ \A k \in {"platform_container_id", "platform_remote_source_id"} :
              (k \in DOMAIN content /\ content[k].t = "uuid")
                 => content'[k] = content[k]]_vars

\* C9: once __init__ has raised, the administration file is never written.
C9_NoWriteAfterFailure ==
    [][obj = "failed" => file' = file]_vars

\* C10: after a successful construction each of the five timestamp indexes
\* and each of the five datetime indexes holds a datetime.
C10_InstantsEverywhere ==
    (op = "construct" /\ obj = "live") =>
       \A k \in {"finish_timestamp", "last_download_timestamp",
                 "latest_part_finish_timestamp",
                 "latest_part_start_timestamp", "start_timestamp",
                 "finish_datetime", "last_download_datetime",
                 "latest_part_finish_datetime",
                 "latest_part_start_datetime", "start_datetime"} :
          k \in DOMAIN content /\ content[k].t = "dt"

====
